---- MODULE Spec2Model ----
(***************************************************************************)
(* The sinabroJS examples as state machines:                               *)
(*   CacheOptimizer.lruGet / lruSet / fetchWithCache and the TTL cache of  *)
(*     createTTLCache                  (performance-techniques.js)         *)
(*   AlgorithmOptimizer.memoize        (performance-techniques.js)         *)
(*   memoize of the closure example, the memoized decorator                *)
(*   APIModule's TTL cache             (design-patterns.js)                *)
(*   ApiManager.get / getBatch         (the async example)                 *)
(*   ArrayManager.processWithCache / clearCache                            *)
(*   EventOptimizer.debounce / throttle, ModernUtils.debounce / throttle   *)
(*   TextEditor, its commands and EditorInvoker  (design-patterns.js)      *)
(*   AsyncOptimizer.retryWithBackoff / limitConcurrency / batchRequests    *)
(*   bankAccount, Logger, SimpleTest, EventEmitter                         *)
(*                                                                         *)
(* The objects share no state with one another.  A behaviour exercises one *)
(* of them, chosen in Init and recorded in `sut`; the variables of the     *)
(* others keep their constructed values.  Each specification (SpecLru,     *)
(* SpecMemo, SpecKeys, SpecTtl, SpecDebounce, ...) covers the objects one  *)
(* property speaks about; Spec covers all of them.                         *)
(*                                                                         *)
(* The variables marked "history" record what the calls did; the code does *)
(* not read them.                                                          *)
(***************************************************************************)
EXTENDS Integers, Sequences, FiniteSets, TLC

\* ------------------------------------------------------------- bounds
\* Capacities range over 1..MaxCapacity (maxCacheSize is an assignable field).
MaxCapacity == 2

\* Cache keys (the strings the callers pass) and the values stored under them.
Keys == {"a", "b", "c"}
Values == {"v1", "v2"}

\* JS null / undefined where a key or a value is expected.
Null == "null"
NoKey == "undefined"

\* A memoized call is repeated with the same arguments at most MaxStreak times in a row.
MaxStreak == 3
\* The wrapped function is invoked at most MaxCompute times per key between evictions.
MaxCompute == 2

\* What a wrapped synchronous function returns: a falsy value (0) or a truthy one.
Falsy == "0"
Results == {Falsy, "v1"}
\* The promise objects a wrapped asynchronous function returns, one per invocation.
Promises == {"p1", "p2"}
\* What the caller of a throwing call receives.
Exception == "Error"

\* The clock (Date.now()) runs from 0 to MaxTime; a ttl is at most MaxTTL ticks.
MaxTime == 3
MaxTTL == 2
\* At most MaxInFlight asynchronous calls are outstanding at a time.
MaxInFlight == 2

\* The keys used with the TTL caches.
TtlKeys == {"a", "b"}
\* The endpoints requested through APIModule.get and ApiManager.get.
Endpoints == {"a", "b"}
\* The object simulateFetch resolves with, and the data of an API response.
Response == "response"
Data == "data"
\* fetchWithRetry(url, options = {}, maxRetries = 3)
MaxRetries == 3

\* A behaviour makes at most MaxCalls debounce / throttle calls, under the keys
\* TimerKeys, with the shortest or the longest delay (limit): 1 or MaxDelay ticks.
MaxCalls == 3
MaxDelay == 2
TimerKeys == {"default", "search"}
Delays == {1, MaxDelay}

\* The editor content holds at most MaxContent characters and the invoker's history
\* at most MaxHistory commands.
MaxContent == 3
MaxHistory == 3

\* limitConcurrency is called with at most MaxTasks tasks and a limit of at most MaxLimit.
MaxTasks == 3
MaxLimit == 2

\* batchRequests is called at most MaxRequests times on an AsyncOptimizer whose
\* batchSize (an assignable field) is at most MaxBatchSize.
MaxRequests == 3
MaxBatchSize == 2

\* The bankAccount is made with a balance of 10000; a behaviour makes at most
\* MaxBankCalls deposit / withdraw calls, with amounts up to MaxAmount, the whole
\* balance, or one more than it.
InitialBalance == 10000
MaxBankCalls == 3
MaxAmount == 2

\* A behaviour makes at most MaxLoggerCalls calls of new Logger(), Logger.getInstance()
\* and log.
MaxLoggerCalls == 6

\* The describe blocks of a behaviour hold at most MaxTests tests together.
MaxTests == 3

\* An EventEmitter gets at most MaxListeners listeners and at most MaxEmits emit calls,
\* those made by running listeners included.
MaxListeners == 2
MaxEmits == 3

Truthy(v) == v # Falsy /\ v # Null /\ v # NoKey

\* The three memoizing wrappers.
Wrappers == {"memoize", "closure", "decorator"}

\* A memoized function is called with at most MaxArgs arguments, MaxKeyCalls times.
MaxArgs == 2
MaxKeyCalls == 2
\* memoize(fn, cacheSize = 100)
DefaultCacheSize == 100

VARIABLES
    sut,            \* the object this behaviour exercises
    lruCache,       \* CacheOptimizer.lruCache: a Map, as its entries in iteration order
    maxCacheSize,   \* CacheOptimizer.maxCacheSize
    lruLast,        \* history: the last lruGet / lruSet call and what it did
    touchOrder,     \* history: cached keys by the time of their last lruGet hit or lruSet
    setOrder,       \* history: cached keys by the time of their last lruSet
    setRun,         \* history: the lruSet calls since the last lruGet, while their keys differ
    memoCache,      \* the `cache` a memoizing wrapper closes over, in iteration order
    cacheSize,      \* memoize(fn, cacheSize)
    fnKind,         \* the wrapped fn: "sync" returns a value or throws, "async" returns a promise
    promiseState,   \* each promise: unused, pending, fulfilled or rejected
    memoLast,       \* history: the last call of the memoized function and what it did
    streak,         \* history: the calls made in a row with the same arguments
    memoTouch,      \* history: cached keys by the time of their last cache hit or insert
    evictedKeys,    \* history: keys whose entry was evicted and not stored again since
    failedKeys,     \* history: keys whose last call threw
    fnReturns,      \* history: per key, the returns of fn since the key was last uncached
    ttlCache,       \* the Map of a TTL cache (createTTLCache's cache, APIModule.cache)
    now,            \* Date.now()
    ttlLast,        \* history: the last call on the TTL cache and what it did
    calls,          \* the asynchronous calls that are awaiting something
    requestCache,   \* ApiManager.requestCache
    argLists,       \* the argument lists of the calls g(...args) a behaviour makes
    keyCache,       \* the `cache` of the function memoize returned, keyed by derived key
    keyLog,         \* history: per call made, its arguments, its key and what it did
    arrayCache,     \* ArrayManager.cache
    processed,      \* ArrayManager.processed
    arrayLast,      \* history: the last call on the ArrayManager and what it did
    timers,         \* the timers set with setTimeout that have neither fired nor been cleared
    debounceTimers, \* EventOptimizer.debounceTimers; the timeoutId of a debounced function
    throttleFlags,  \* EventOptimizer.throttleFlags; the inThrottle of a throttled function
    timerLog,       \* history: per debounce / throttle call, when it was made and when func ran
    obj             \* the fields of the other objects (TextEditor with its EditorInvoker,
                    \* ...), whichever the behaviour exercises, and the history of its calls

lruVars == <<lruCache, maxCacheSize, lruLast, touchOrder, setOrder, setRun>>
memoVars == <<memoCache, cacheSize, fnKind, promiseState, memoLast, streak, memoTouch,
              evictedKeys, failedKeys, fnReturns>>
ttlVars == <<ttlCache, now, ttlLast>>
asyncVars == <<calls, requestCache>>
keyVars == <<argLists, keyCache, keyLog>>
arrayVars == <<arrayCache, processed, arrayLast>>
timerVars == <<timers, debounceTimers, throttleFlags, timerLog>>
cacheVars == <<lruVars, memoVars, ttlVars, asyncVars, keyVars, arrayVars, timerVars>>
vars == <<sut, cacheVars, obj>>

CallIds == 1..MaxInFlight

\* ------------------------------------------------------------- JS Map
\* A Map is the sequence of its entries [key, value] in insertion order.
Entry(k, v) == [key |-> k, value |-> v]

MapHas(m, k) == \E i \in 1..Len(m) : m[i].key = k

MapGet(m, k) == m[CHOOSE i \in 1..Len(m) : m[i].key = k].value

MapDelete(m, k) == SelectSeq(m, LAMBDA e : e.key # k)

\* Map.prototype.set keeps the position of a key that is present.
MapSet(m, k, v) ==
    IF MapHas(m, k)
    THEN [i \in 1..Len(m) |-> IF m[i].key = k THEN Entry(k, v) ELSE m[i]]
    ELSE Append(m, Entry(k, v))

\* m.keys().next().value
MapClearNothing(m) == m

\* m.clear()
MapClear(m) == <<>>

MapFirstKey(m) == IF Len(m) = 0 THEN NoKey ELSE m[1].key

MapKeys(m) == {m[i].key : i \in 1..Len(m)}

\* ------------------------------------------------------------- CacheOptimizer
LruGetCacheNoPromote(m, k) == m

\* lruCache after lruGet(key)
LruGetCache(m, k) ==
    IF MapHas(m, k) THEN MapSet(MapDelete(m, k), k, MapGet(m, k)) ELSE m

\* the value lruGet(key) returns
LruGetValue(m, k) == IF MapHas(m, k) THEN MapGet(m, k) ELSE Null

\* this.lruCache.size >= this.maxCacheSize
LruSetEvictsAt(m, cap) == Len(m) >= cap

LruSetCacheNoEvict(m, cap, k, v) ==
    MapSet(IF MapHas(m, k) THEN MapDelete(m, k) ELSE m, k, v)

LruSetCacheEvictLast(m, cap, k, v) ==
    LET m1 == IF MapHas(m, k) THEN MapDelete(m, k)
              ELSE IF Len(m) >= cap THEN SubSeq(m, 1, Len(m) - 1)
              ELSE m
    IN  MapSet(m1, k, v)

LruSetCacheEvictsWhenFull(m, cap, k, v) ==
    LET m1 == IF Len(m) >= cap THEN MapDelete(m, MapFirstKey(m)) ELSE m
    IN  MapSet(MapDelete(m1, k), k, v)

\* lruCache after lruSet(key, value)
LruSetCache(m, cap, k, v) ==
    LET m1 == IF MapHas(m, k) THEN MapDelete(m, k)
              ELSE IF LruSetEvictsAt(m, cap) THEN MapDelete(m, MapFirstKey(m))
              ELSE m
    IN  MapSet(m1, k, v)

\* whether lruSet(key, value) takes its eviction branch
LruSetEvicts(m, cap, k) == ~MapHas(m, k) /\ LruSetEvictsAt(m, cap)

\* ------------------------------------------------------------- memoizing wrappers
MemoizeHitTruthy(m, k) == MapHas(m, k) /\ Truthy(MapGet(m, k))

\* AlgorithmOptimizer.memoize: cache.has(key)
MemoizeHit(m, k) == MapHas(m, k)

\* AlgorithmOptimizer.memoize: the cache after a computed result is stored
MemoizeStore(m, cap, k, r) ==
    LET m1 == IF Len(m) >= cap THEN MapDelete(m, MapFirstKey(m)) ELSE m
    IN  MapSet(m1, k, r)

\* memoize of the closure example: if (cache[key])
ClosureHit(m, k) == MapHas(m, k) /\ Truthy(MapGet(m, k))

\* memoize of the closure example: cache[key] = result
ClosureStore(m, k, r) == MapSet(m, k, r)

\* the memoized decorator: cache.has(key)
MemoizedHit(m, k) == MapHas(m, k)

\* the memoized decorator: cache.set(key, result)
MemoizedStore(m, k, r) == MapSet(m, k, r)

\* Whether wrapper w answers a call with key k from its cache.
Hit(w, m, k) ==
    CASE w = "memoize" -> MemoizeHit(m, k)
      [] w = "closure" -> ClosureHit(m, k)
      [] w = "decorator" -> MemoizedHit(m, k)

\* The cache of wrapper w after fn returned r for key k.
Store(w, m, cap, k, r) ==
    CASE w = "memoize" -> MemoizeStore(m, cap, k, r)
      [] w = "closure" -> ClosureStore(m, k, r)
      [] w = "decorator" -> MemoizedStore(m, k, r)

CacheOnThrowEvicted(w, m, cap, k) ==
    IF w = "memoize" /\ Len(m) >= cap THEN MapDelete(m, MapFirstKey(m)) ELSE m

\* The cache after fn threw: fn.apply is called before the cache is touched.
CacheOnThrow(w, m, cap, k) == m

\* ------------------------------------------------------------- key derivation
\* The JS values passed as arguments.  A number carries its decimal digits (or NaN),
\* an array its items, an object its own properties in insertion order.
\* A value is a record tagged with its type in t; "circular" is an object that holds
\* itself (const o = {}; o.self = o).
JsArray(items) == [t |-> "array", items |-> items]

\* JSON.stringify throws this for a circular structure.
TypeError == "TypeError"
\* JSON.stringify(undefined), JSON.stringify(function) and JSON.stringify(symbol)
\* are undefined, not a string.
NoJson == "undefined"

RECURSIVE Stringify(_), StringifyItems(_), StringifyProps(_, _)

\* The items of an array, separated by commas: an item without JSON text is null.
StringifyItems(items) ==
    IF Len(items) = 0 THEN ""
    ELSE LET h == Stringify(Head(items))
             r == StringifyItems(Tail(items))
         IN  IF h = TypeError \/ r = TypeError THEN TypeError
             ELSE (IF h = NoJson THEN "null" ELSE h)
                  \o (IF Len(items) = 1 THEN "" ELSE "," \o r)

\* The properties of an object, separated by commas, in insertion order: a property
\* whose value has no JSON text is left out.  `first` says nothing was written yet.
StringifyProps(props, first) ==
    IF Len(props) = 0 THEN ""
    ELSE LET h == Stringify(Head(props).value)
             r == StringifyProps(Tail(props), first /\ h = NoJson)
         IN  IF h = TypeError \/ r = TypeError THEN TypeError
             ELSE IF h = NoJson THEN r
             ELSE (IF first THEN "" ELSE ",")
                  \o "\"" \o Head(props).name \o "\":" \o h \o r

\* JSON.stringify(x)
Stringify(x) ==
    CASE x.t = "number" -> IF x.v = "NaN" THEN "null" ELSE x.v
      [] x.t = "string" -> "\"" \o x.v \o "\""
      [] x.t = "null" -> "null"
      [] x.t \in {"undefined", "function", "symbol"} -> NoJson
      [] x.t = "circular" -> TypeError
      [] x.t = "array" ->
            LET body == StringifyItems(x.items)
            IN  IF body = TypeError THEN TypeError ELSE "[" \o body \o "]"
      [] x.t = "object" ->
            LET body == StringifyProps(x.props, TRUE)
            IN  IF body = TypeError THEN TypeError ELSE "{" \o body \o "}"

\* const key = JSON.stringify(args)
CacheKey(args) == Stringify(JsArray(args))

\* The arguments the calls are made with.
JsValues ==
    LET one == [t |-> "number", v |-> "1"]
        two == [t |-> "number", v |-> "2"]
        a1  == [name |-> "a", value |-> one]
        b2  == [name |-> "b", value |-> two]
    IN  {one, [t |-> "string", v |-> "1"], [t |-> "null"], [t |-> "undefined"],
         [t |-> "number", v |-> "NaN"],
         JsArray(<<one, two>>), JsArray(<<two, one>>),
         [t |-> "object", props |-> <<a1, b2>>], [t |-> "object", props |-> <<b2, a1>>],
         [t |-> "function"], [t |-> "symbol"], [t |-> "circular"]}

RECURSIVE Serializable(_)
\* x is neither a function, nor a symbol, nor a circular structure, and holds none.
Serializable(x) ==
    CASE x.t \in {"function", "symbol", "circular"} -> FALSE
      [] x.t = "array" -> \A i \in 1..Len(x.items) : Serializable(x.items[i])
      [] x.t = "object" -> \A i \in 1..Len(x.props) : Serializable(x.props[i].value)
      [] OTHER -> TRUE

\* ------------------------------------------------------------- TTL caches
\* { value, expireAt }
TtlItem(v, e) == [value |-> v, expireAt |-> e]

TtlExpiredForOneTick(item, t) == t = item.expireAt + 1

\* Date.now() > item.expireAt
TtlExpired(item, t) == t > item.expireAt

\* createTTLCache: the Map after set(key, value, ttl)
TtlSetCache(m, t, k, v, ttl) == MapSet(m, k, TtlItem(v, t + ttl))

TtlGetCacheKeepsExpired(m, t, k) == m

\* createTTLCache: the Map after get(key)
TtlGetCache(m, t, k) ==
    IF MapHas(m, k) /\ TtlExpired(MapGet(m, k), t) THEN MapDelete(m, k) ELSE m

\* createTTLCache: what get(key) returns
TtlGetValue(m, t, k) ==
    IF ~MapHas(m, k) THEN Null
    ELSE IF TtlExpired(MapGet(m, k), t) THEN Null
    ELSE MapGet(m, k).value

TtlCleanupCacheAtExpiry(m, t) == SelectSeq(m, LAMBDA e : t < e.value.expireAt)

\* createTTLCache: the Map after cleanup()
TtlCleanupCache(m, t) == SelectSeq(m, LAMBDA e : ~TtlExpired(e.value, t))

\* APIModule.#setCacheItem(key, data): the default ttl of 300000 ms is MaxTTL ticks
SetCacheItem(m, t, k, data) == MapSet(m, k, TtlItem(data, t + MaxTTL))

\* APIModule.#getCacheItem(key): the Map after it
GetCacheItemCache(m, t, k) ==
    IF MapHas(m, k) /\ TtlExpired(MapGet(m, k), t) THEN MapDelete(m, k) ELSE m

\* APIModule.#getCacheItem(key): what it returns
GetCacheItemValue(m, t, k) ==
    IF ~MapHas(m, k) THEN Null
    ELSE IF TtlExpired(MapGet(m, k), t) THEN Null
    ELSE MapGet(m, k).value

\* ------------------------------------------------------------- TextEditor, commands
\* str.slice(b, e) on a string given as the sequence of its characters: a negative
\* index counts from the end (-0 is 0), indices are clamped to 0..length.
JsSlice(str, b, e) ==
    LET from == IF b < 0 THEN (IF Len(str) + b < 0 THEN 0 ELSE Len(str) + b)
                ELSE IF b > Len(str) THEN Len(str) ELSE b
        to   == IF e < 0 THEN (IF Len(str) + e < 0 THEN 0 ELSE Len(str) + e)
                ELSE IF e > Len(str) THEN Len(str) ELSE e
    IN  SubSeq(str, from + 1, to)

\* TextEditor.delete(length): this.content.slice(0, -length)
EditorDelete(content, length) == JsSlice(content, 0, 0 - length)

\* new WriteCommand(editor, text) / new DeleteCommand(editor, length)
Commands ==
    {[kind |-> "write", text |-> t, length |-> 0, deletedText |-> <<>>] :
        t \in {<<>>, <<"a">>, <<"b", "c">>}}
    \cup {[kind |-> "delete", text |-> <<>>, length |-> n, deletedText |-> <<>>] :
        n \in {0, 1, MaxContent + 1}}

\* command.execute(): the command (a DeleteCommand remembers what it deleted) and the
\* editor content after it.
CommandExecute(c, content) ==
    IF c.kind = "write" THEN [command |-> c, content |-> content \o c.text]
    ELSE [command |-> [c EXCEPT !.deletedText = JsSlice(content, 0 - c.length, Len(content))],
          content |-> EditorDelete(content, c.length)]

\* command.undo(): the editor content after it.
CommandUndo(c, content) ==
    IF c.kind = "write" THEN EditorDelete(content, Len(c.text))
    ELSE content \o c.deletedText

KeepHistory(history, currentPosition) == history

\* EditorInvoker.execute: this.history.slice(0, this.currentPosition + 1)
TruncateHistory(history, currentPosition) == SubSeq(history, 1, currentPosition + 1)

\* ------------------------------------------------------------- timers
\* A pending timer: the call that set it, the key it was set for, when it is due.
Timer(id, k, due) == [id |-> id, key |-> k, due |-> due]

\* The pending timer call id set, or a timer that is not pending.
TimerOf(id) ==
    IF \E t \in timers : t.id = id THEN CHOOSE t \in timers : t.id = id
    ELSE Timer(0, NoKey, 0)

ClearTimeoutNothing(ts, m, k) == ts

\* clearTimeout(this.debounceTimers.get(key)) / clearTimeout(timeoutId): the pending
\* timers without the one registered for k, if there is one.
ClearTimeout(ts, m, k) ==
    IF MapHas(m, k) THEN {t \in ts : t.id # MapGet(m, k)} ELSE ts

InThrottleNever(m, k) == FALSE

\* this.throttleFlags.has(key) / inThrottle
InThrottle(m, k) == MapHas(m, k)

\* ------------------------------------------------------------- asynchronous calls
Idle == [pc |-> "idle", key |-> NoKey, useCache |-> FALSE, attempt |-> 0]

\* The calls that have started the underlying request for key k and not finished.
Outstanding(k) == {c \in CallIds : calls[c].pc # "idle" /\ calls[c].key = k}

\* ApiManager.get: useCache && this.requestCache.has(cacheKey)
ApiCacheHit(m, k, useCache) == useCache /\ MapHas(m, k)

\* ApiManager.get: requestCache after the data arrived
ApiStore(m, k, data, useCache) == IF useCache THEN MapSet(m, k, data) ELSE m

\* ------------------------------------------------------------- history
Without(s, k) == SelectSeq(s, LAMBDA x : x # k)
Touch(s, k) == Append(Without(s, k), k)
Restrict(s, m) == SelectSeq(s, LAMBDA x : MapHas(m, x))
Oldest(s) == IF Len(s) = 0 THEN NoKey ELSE s[1]
KeySeq(m) == [i \in 1..Len(m) |-> m[i].key]

\* The key a call removed: in the Map before it, not in the Map after it.
Dropped(m, m2) ==
    IF \E k \in MapKeys(m) : ~MapHas(m2, k)
    THEN CHOOSE k \in MapKeys(m) : ~MapHas(m2, k)
    ELSE NoKey

\* run . <<e>> from after the entry with e's key on, cut to its last n entries:
\* the latest lruSet calls with pairwise different keys.
ExtendRun(run, e, n) ==
    LET i0 == IF \E i \in 1..Len(run) : run[i].key = e.key
              THEN CHOOSE i \in 1..Len(run) : run[i].key = e.key
              ELSE 0
        r1 == Append(SubSeq(run, i0 + 1, Len(run)), e)
    IN  IF Len(r1) > n THEN SubSeq(r1, Len(r1) - n + 1, Len(r1)) ELSE r1

NoCall == [op |-> "none", key |-> NoKey, hit |-> FALSE, ret |-> Null,
           evicted |-> NoKey, lruVictim |-> NoKey, fifoVictim |-> NoKey]

NoMemoCall == [op |-> "none", key |-> NoKey, wasCached |-> FALSE, invoked |-> FALSE,
               threw |-> FALSE, ret |-> Null, evicted |-> NoKey, lruVictim |-> NoKey,
               afterEviction |-> FALSE, atCapacity |-> FALSE]

NoStreak == [key |-> NoKey, calls |-> 0, invoked |-> 0, rets |-> {},
             cachedAtStart |-> FALSE, threw |-> FALSE]

\* stored / ttl: the value and ttl of a set (of a get: the value it found);
\* removed: how many entries the call took out of the Map.
NoTtlCall == [op |-> "none", key |-> NoKey, present |-> FALSE, stored |-> Null,
              expireAt |-> 0, at |-> 0, ret |-> Null, ttl |-> 0, removed |-> 0]

\* The record of a get(key) on the TTL Map m at time t that returned ret.
TtlGetRecord(m, t, k, ret) ==
    [op |-> "get", key |-> k, present |-> MapHas(m, k),
     stored |-> IF MapHas(m, k) THEN MapGet(m, k).value ELSE Null,
     expireAt |-> IF MapHas(m, k) THEN MapGet(m, k).expireAt ELSE 0,
     at |-> t, ret |-> ret, ttl |-> 0, removed |-> 0]

TtlOtherRecord(op, k, t) ==
    [op |-> op, key |-> k, present |-> FALSE, stored |-> Null, expireAt |-> 0,
     at |-> t, ret |-> Null, ttl |-> 0, removed |-> 0]

\* The call op on an EditorInvoker that takes the object from o to the fields in
\* `to`: the fields, and for the history what the call found and whether it changed
\* anything.  trip follows an execute, the undo right after it and the redo right
\* after that; pre and post are the contents before and after that execute.
EditorCall(o, op, to) ==
    [content |-> to.content, history |-> to.history,
     currentPosition |-> to.currentPosition,
     op |-> op, posBefore |-> o.currentPosition, lenBefore |-> Len(o.history),
     changed |-> \/ to.content # o.content
                 \/ to.history # o.history
                 \/ to.currentPosition # o.currentPosition,
     trip |-> IF op = "execute" THEN "executed"
              ELSE IF op = "undo" /\ o.trip = "executed" THEN "undone"
              ELSE IF op = "redo" /\ o.trip = "undone" THEN "redone"
              ELSE "none",
     pre |-> IF op = "execute" THEN o.content ELSE o.pre,
     post |-> IF op = "execute" THEN to.content ELSE o.post]

\* ------------------------------------------------------------- AsyncOptimizer.retryWithBackoff
\* const delay = baseDelay * Math.pow(2, attempt)
BackoffDelayDoubled(baseDelay, attempt) == baseDelay * 2 ^ (attempt + 1)
BackoffDelay(baseDelay, attempt) == baseDelay * 2 ^ attempt

\* The head of the loop: fn is invoked once more while attempt <= maxRetries; past the
\* loop lastError is thrown.  The error of the attempt k is written k, no error -1.
RetryLoop(o) ==
    IF o.attempt <= o.maxRetries
    THEN [o EXCEPT !.pc = "fn", !.invoked = @ + 1]
    ELSE [o EXCEPT !.pc = "threw", !.thrown = o.lastError]

\* retryWithBackoff(fn, maxRetries, baseDelay), up to its first await.
RetryWithBackoff(maxRetries, baseDelay) ==
    /\ sut = "retry"
    /\ obj.pc = "idle"
    /\ obj' = RetryLoop([obj EXCEPT !.maxRetries = maxRetries, !.baseDelay = baseDelay])
    /\ UNCHANGED <<sut, cacheVars>>

\* The promise fn returned settles: the call returns its value, or the error is kept
\* and, unless this was the last attempt, the timer of the backoff is set.
RetryFnSettles(ok) ==
    /\ sut = "retry"
    /\ obj.pc = "fn"
    /\ obj' = IF ok
              THEN [obj EXCEPT !.pc = "returned", !.result = obj.attempt]
              ELSE IF obj.attempt = obj.maxRetries
              THEN [obj EXCEPT !.pc = "threw", !.lastError = obj.attempt,
                               !.thrown = obj.attempt]
              ELSE [obj EXCEPT !.pc = "backoff", !.lastError = obj.attempt,
                               !.waits = Append(@, BackoffDelay(obj.baseDelay, obj.attempt))]
    /\ UNCHANGED <<sut, cacheVars>>

\* The timer of the backoff fires: attempt++ and the loop goes on.
RetryBackoffOver ==
    /\ sut = "retry"
    /\ obj.pc = "backoff"
    /\ obj' = RetryLoop([obj EXCEPT !.attempt = @ + 1])
    /\ UNCHANGED <<sut, cacheVars>>

\* ------------------------------------------------------------- AsyncOptimizer.limitConcurrency
\* The tasks are numbered in the order of `tasks`; the task i resolves with the value i;
\* the promise `promise` made for the task i is written i as well.
\* limitConcurrency(tasks, limit), up to the loop.
LimitConcurrency(n, limit) ==
    /\ sut = "limit"
    /\ obj.pc = "idle"
    /\ obj' = [obj EXCEPT !.pc = "loop", !.n = n, !.limit = limit]
    /\ UNCHANGED <<sut, cacheVars>>

\* One turn of the loop: the next task is started and its promise pushed on results and
\* executing, and the loop awaits the race when executing.length >= limit; past the
\* last task, Promise.all(results) is awaited.
LimitNextTask ==
    /\ sut = "limit"
    /\ obj.pc = "loop"
    /\ obj' = IF obj.next > obj.n
              THEN [obj EXCEPT !.pc = "all"]
              ELSE LET executing == Append(obj.executing, obj.next)
                   IN [obj EXCEPT !.task[obj.next] = "running",
                                  !.starts[obj.next] = @ + 1,
                                  !.results = Append(@, obj.next),
                                  !.executing = executing,
                                  !.next = @ + 1,
                                  !.raceOn = IF Len(executing) >= obj.limit
                                             THEN {executing[k] : k \in 1..Len(executing)}
                                             ELSE {},
                                  !.pc = IF Len(executing) >= obj.limit THEN "race"
                                         ELSE "loop",
                                  !.peak = IF Len(executing) > @ THEN Len(executing)
                                           ELSE @]
    /\ UNCHANGED <<sut, cacheVars>>

\* The task i resolves while limitConcurrency awaits: the callback given to then takes
\* its promise out of executing and the promise resolves with the task's value.
TaskSettles(i) ==
    /\ sut = "limit"
    /\ obj.pc \in {"race", "all"}
    /\ obj.task[i] = "running"
    /\ obj' = [obj EXCEPT !.task[i] = "done",
                          !.executing = SelectSeq(@, LAMBDA p : p # i),
                          !.finished = Append(@, i)]
    /\ UNCHANGED <<sut, cacheVars>>

\* await Promise.race(executing) is over once a promise it was called with is resolved.
LimitRaceNotAwaited ==
    /\ sut = "limit"
    /\ obj.pc = "race"
    /\ obj' = [obj EXCEPT !.pc = "loop", !.raceOn = {}]
    /\ UNCHANGED <<sut, cacheVars>>

LimitRaceWon ==
    /\ sut = "limit"
    /\ obj.pc = "race"
    /\ \E i \in obj.raceOn : obj.task[i] = "done"
    /\ obj' = [obj EXCEPT !.pc = "loop", !.raceOn = {}]
    /\ UNCHANGED <<sut, cacheVars>>

\* Promise.all(results) resolves, when every promise of results is resolved, with their
\* values in the order of results.
LimitReturns ==
    /\ sut = "limit"
    /\ obj.pc = "all"
    /\ \A k \in 1..Len(obj.results) : obj.task[obj.results[k]] = "done"
    /\ obj' = [obj EXCEPT !.pc = "returned", !.returned = obj.results]
    /\ UNCHANGED <<sut, cacheVars>>

\* ------------------------------------------------------------- AsyncOptimizer.batchRequests
\* The requests are numbered in the order of the batchRequests calls.  requestFn returns
\* a promise, which is fulfilled or rejected later on.

\* batchRequests(requestFn): the request is queued, and the timer of processBatch is set
\* when the queue holds this request only.
BatchRequests(id) ==
    /\ sut = "batch"
    /\ obj.req[id] = "none"
    /\ \A j \in 1..(id - 1) : obj.req[j] # "none"
    /\ LET requestQueue == Append(obj.requestQueue, id)
       IN obj' = [obj EXCEPT !.requestQueue = requestQueue,
                             !.req[id] = "queued",
                             !.late[id] = obj.batches # <<>>,
                             !.timers = IF Len(requestQueue) = 1 THEN @ + 1 ELSE @]
    /\ UNCHANGED <<sut, cacheVars>>

\* A timer fires: processBatch() up to its await.  The first batchSize requests leave
\* the queue and their request functions are run.
ProcessBatch ==
    /\ sut = "batch"
    /\ obj.timers > 0
    /\ LET size == IF Len(obj.requestQueue) < obj.batchSize THEN Len(obj.requestQueue)
                   ELSE obj.batchSize
           batch == SubSeq(obj.requestQueue, 1, size)
           inBatch == {batch[k] : k \in 1..size}
       IN obj' = [obj EXCEPT !.timers = @ - 1,
                             !.requestQueue = SubSeq(@, size + 1, Len(@)),
                             !.batches = Append(@, batch),
                             !.req = [id \in DOMAIN @ |->
                                        IF id \in inBatch THEN "running" ELSE @[id]],
                             !.runs = [id \in DOMAIN @ |->
                                         IF id \in inBatch THEN @[id] + 1 ELSE @[id]],
                             !.largest = IF size > @ THEN size ELSE @]
    /\ UNCHANGED <<sut, cacheVars>>

\* The promise a request function returned is fulfilled or rejected.
RequestSettles(id, outcome) ==
    /\ sut = "batch"
    /\ obj.req[id] = "running"
    /\ obj' = [obj EXCEPT !.req[id] = "settled", !.outcome[id] = outcome]
    /\ UNCHANGED <<sut, cacheVars>>

\* processBatch without its last statement.
BatchSettledNoTimer(k) ==
    /\ sut = "batch"
    /\ k \in 1..Len(obj.batches)
    /\ \A j \in 1..Len(obj.batches[k]) : obj.req[obj.batches[k][j]] = "settled"
    /\ LET batch == obj.batches[k]
           results == [index \in 1..Len(batch) |-> obj.outcome[batch[index]]]
       IN obj' = [obj EXCEPT !.batches = SubSeq(@, 1, k - 1) \o SubSeq(@, k + 1, Len(@)),
                             !.req = [id \in DOMAIN @ |->
                                        IF \E index \in 1..Len(batch) : batch[index] = id
                                        THEN "resolved" ELSE @[id]],
                             !.resolvedWith = [id \in DOMAIN @ |->
                                        IF \E index \in 1..Len(batch) : batch[index] = id
                                        THEN results[CHOOSE index \in 1..Len(batch) :
                                                         batch[index] = id]
                                        ELSE @[id]]]
    /\ UNCHANGED <<sut, cacheVars>>

\* Promise.allSettled(promises) of the k-th batch in flight resolves: processBatch hands
\* results[index] to the resolve of batch[index], and sets the timer again when the
\* queue is not empty.
BatchSettled(k) ==
    /\ sut = "batch"
    /\ k \in 1..Len(obj.batches)
    /\ \A j \in 1..Len(obj.batches[k]) : obj.req[obj.batches[k][j]] = "settled"
    /\ LET batch == obj.batches[k]
           results == [index \in 1..Len(batch) |-> obj.outcome[batch[index]]]
       IN obj' = [obj EXCEPT !.batches = SubSeq(@, 1, k - 1) \o SubSeq(@, k + 1, Len(@)),
                             !.req = [id \in DOMAIN @ |->
                                        IF \E index \in 1..Len(batch) : batch[index] = id
                                        THEN "resolved" ELSE @[id]],
                             !.resolvedWith = [id \in DOMAIN @ |->
                                        IF \E index \in 1..Len(batch) : batch[index] = id
                                        THEN results[CHOOSE index \in 1..Len(batch) :
                                                         batch[index] = id]
                                        ELSE @[id]],
                             !.timers = IF Len(obj.requestQueue) > 0 THEN @ + 1 ELSE @]
    /\ UNCHANGED <<sut, cacheVars>>

\* ------------------------------------------------------------- bankAccount
\* The values deposit and withdraw are called with: numbers (NaN among them, whose
\* typeof is 'number' and whose comparisons are all false), a string, undefined.
Amounts ==
    {[type |-> "number", nan |-> FALSE, value |-> v] :
         v \in (-1..MaxAmount) \cup {InitialBalance, InitialBalance + 1}}
    \cup {[type |-> "number", nan |-> TRUE, value |-> 0],
          [type |-> "string", nan |-> FALSE, value |-> 1],
          [type |-> "undefined", nan |-> FALSE, value |-> 0]}

\* typeof amount === 'number' && amount > 0
IsValidAmountOrZero(amount) == amount.type = "number" /\ ~amount.nan /\ amount.value >= 0
IsValidAmount(amount) == amount.type = "number" /\ ~amount.nan /\ amount.value > 0

\* bankAccount.deposit(amount)
Deposit(amount) ==
    /\ sut = "bank"
    /\ obj.calls < MaxBankCalls
    /\ obj' = IF IsValidAmount(amount)
              THEN [balance |-> obj.balance + amount.value, calls |-> obj.calls + 1,
                    op |-> "deposit", amount |-> amount, before |-> obj.balance,
                    ret |-> "deposited"]
              ELSE [obj EXCEPT !.calls = @ + 1, !.op = "deposit", !.amount = amount,
                               !.before = obj.balance, !.ret = "invalid amount"]
    /\ UNCHANGED <<sut, cacheVars>>

\* bankAccount.withdraw(amount)
Withdraw(amount) ==
    /\ sut = "bank"
    /\ obj.calls < MaxBankCalls
    /\ obj' = IF IsValidAmount(amount) /\ amount.value <= obj.balance
              THEN [balance |-> obj.balance - amount.value, calls |-> obj.calls + 1,
                    op |-> "withdraw", amount |-> amount, before |-> obj.balance,
                    ret |-> "withdrawn"]
              ELSE [obj EXCEPT !.calls = @ + 1, !.op = "withdraw", !.amount = amount,
                               !.before = obj.balance,
                               !.ret = "insufficient balance or invalid amount"]
    /\ UNCHANGED <<sut, cacheVars>>

\* ------------------------------------------------------------- Logger
\* The objects `new` allocates are numbered 1, 2, ...; Logger.instance is 0 while unset.
\* obj.logs[o] is the logs array of the object o, obj.returned the objects the callers
\* were handed.

\* new Logger() where the constructor does not look at Logger.instance.
NewLoggerFresh ==
    /\ sut = "logger"
    /\ obj.calls < MaxLoggerCalls
    /\ LET this == obj.allocated + 1
       IN obj' = [obj EXCEPT !.allocated = this, !.calls = @ + 1,
                             !.logs[this] = <<>>, !.instance = this,
                             !.returned = @ \cup {this}]
    /\ UNCHANGED <<sut, cacheVars>>

\* new Logger(): the constructor returns Logger.instance when it is set; otherwise it
\* initialises the new object, stores it in Logger.instance and returns it.
NewLogger ==
    /\ sut = "logger"
    /\ obj.calls < MaxLoggerCalls
    /\ LET this == obj.allocated + 1
       IN obj' = IF obj.instance # 0
                 THEN [obj EXCEPT !.allocated = this, !.calls = @ + 1,
                                  !.returned = @ \cup {obj.instance}]
                 ELSE [obj EXCEPT !.allocated = this, !.calls = @ + 1,
                                  !.logs[this] = <<>>, !.instance = this,
                                  !.returned = @ \cup {this}]
    /\ UNCHANGED <<sut, cacheVars>>

\* Logger.getInstance(): Logger.instance, made with new Logger() when unset.
GetInstance ==
    /\ sut = "logger"
    /\ obj.calls < MaxLoggerCalls
    /\ LET this == obj.allocated + 1
       IN obj' = IF obj.instance # 0
                 THEN [obj EXCEPT !.calls = @ + 1, !.returned = @ \cup {obj.instance}]
                 ELSE [obj EXCEPT !.allocated = this, !.calls = @ + 1,
                                  !.logs[this] = <<>>, !.instance = this,
                                  !.returned = @ \cup {this}]
    /\ UNCHANGED <<sut, cacheVars>>

\* logger.log(level, message) on a logger the caller holds.
Log(logger, level) ==
    /\ sut = "logger"
    /\ obj.calls < MaxLoggerCalls
    /\ logger \in obj.returned
    /\ obj' = [obj EXCEPT !.calls = @ + 1, !.logCalls = @ + 1,
                          !.logs[logger] = Append(@, level)]
    /\ UNCHANGED <<sut, cacheVars>>

\* ------------------------------------------------------------- SimpleTest
\* What a test function does: it returns, or it throws an Error (as expect does) or
\* some other value.
TestBodies == {"returns", "throws Error", "throws string"}

\* test.describe(name, fn), where fn calls this.it once per element of `plan`.
Describe(plan) ==
    /\ sut = "tests"
    /\ obj.next > Len(obj.plan)
    /\ obj.planned + Len(plan) <= MaxTests
    /\ obj' = [obj EXCEPT !.plan = plan, !.next = 1, !.planned = @ + Len(plan)]
    /\ UNCHANGED <<sut, cacheVars>>

\* it(description, testFn) without its try / catch: what a test throws leaves it and
\* the function given to describe, whose remaining it calls are not made.
ItUncaught ==
    /\ sut = "tests"
    /\ obj.next <= Len(obj.plan)
    /\ obj' = IF obj.plan[obj.next] = "returns"
              THEN [obj EXCEPT !.passed = @ + 1, !.next = @ + 1, !.itCalls = @ + 1,
                               !.returned = @ + 1]
              ELSE [obj EXCEPT !.next = Len(obj.plan) + 1, !.itCalls = @ + 1,
                               !.threw = @ + 1]
    /\ UNCHANGED <<sut, cacheVars>>

\* it(description, testFn): the next it call of the describe block.  testFn runs inside
\* try: passed++ when it returns, failed++ in the catch when it throws.
It ==
    /\ sut = "tests"
    /\ obj.next <= Len(obj.plan)
    /\ obj' = IF obj.plan[obj.next] = "returns"
              THEN [obj EXCEPT !.passed = @ + 1, !.next = @ + 1, !.itCalls = @ + 1,
                               !.returned = @ + 1]
              ELSE [obj EXCEPT !.failed = @ + 1, !.next = @ + 1, !.itCalls = @ + 1,
                               !.threw = @ + 1]
    /\ UNCHANGED <<sut, cacheVars>>

\* ------------------------------------------------------------- EventEmitter
\* One event name.  The listeners are numbered in the order of their registration;
\* obj.kind[l] tells whether l was given to on ("plain") or is the onceWrapper of a
\* listener given to once ("once").  obj.events is this.events[event].  obj.stack holds
\* the emit calls under way, the innermost last: the array its forEach goes through,
\* the index of the listener it is at, and whether that listener is running.

\* on(event, listener) called from outside a delivery.
On ==
    /\ sut = "emitter"
    /\ obj.stack = <<>>
    /\ obj.registered < MaxListeners
    /\ LET l == obj.registered + 1
       IN obj' = [obj EXCEPT !.registered = l, !.kind[l] = "plain",
                             !.events = Append(@, l)]
    /\ UNCHANGED <<sut, cacheVars>>

\* once(event, listener) called from outside a delivery: this.on(event, onceWrapper).
Once ==
    /\ sut = "emitter"
    /\ obj.stack = <<>>
    /\ obj.registered < MaxListeners
    /\ LET l == obj.registered + 1
       IN obj' = [obj EXCEPT !.registered = l, !.kind[l] = "once",
                             !.events = Append(@, l)]
    /\ UNCHANGED <<sut, cacheVars>>

\* emit(event), called from outside or by the listener that is running: forEach starts
\* on the array this.events[event] is now (an emit without listeners does nothing).
Emit ==
    /\ sut = "emitter"
    /\ obj.emits < MaxEmits
    /\ obj.stack # <<>> => obj.stack[Len(obj.stack)].running
    /\ obj' = [obj EXCEPT !.emits = @ + 1,
                          !.reentrant = @ \/ obj.stack # <<>>,
                          !.stack = IF obj.events = <<>> THEN @
                                    ELSE Append(@, [array |-> obj.events, index |-> 1,
                                                    running |-> FALSE])]
    /\ UNCHANGED <<sut, cacheVars>>

\* forEach calls the listener it is at; a onceWrapper calls the listener it wraps.
CallListener ==
    /\ sut = "emitter"
    /\ obj.stack # <<>>
    /\ LET top == obj.stack[Len(obj.stack)]
           l == top.array[top.index]
       IN /\ ~top.running
          /\ obj' = [obj EXCEPT !.stack[Len(obj.stack)].running = TRUE,
                                !.invoked[l] = @ + 1]
    /\ UNCHANGED <<sut, cacheVars>>

\* The listener returns.  A onceWrapper then calls this.off(event, onceWrapper), which
\* puts a filtered copy in this.events[event]; forEach moves on, and emit returns after
\* the last listener of its array.
ListenerReturns ==
    /\ sut = "emitter"
    /\ obj.stack # <<>>
    /\ LET depth == Len(obj.stack)
           top == obj.stack[depth]
           l == top.array[top.index]
       IN /\ top.running
          /\ obj' = [obj EXCEPT
                       !.events = IF obj.kind[l] = "once"
                                  THEN SelectSeq(@, LAMBDA listener : listener # l)
                                  ELSE @,
                       !.stack = IF top.index = Len(top.array)
                                 THEN SubSeq(@, 1, depth - 1)
                                 ELSE [@ EXCEPT ![depth].index = top.index + 1,
                                                ![depth].running = FALSE]]
    /\ UNCHANGED <<sut, cacheVars>>

\* ------------------------------------------------------------- Init
\* The object the behaviour exercises, as constructed.
ObjInit ==
    obj \in CASE sut = "editor" ->
                   {[content |-> <<>>, history |-> <<>>, currentPosition |-> -1,
                     op |-> "none", posBefore |-> -1, lenBefore |-> 0, changed |-> FALSE,
                     trip |-> "none", pre |-> <<>>, post |-> <<>>]}
              [] sut = "retry" ->
                   {[pc |-> "idle", maxRetries |-> 0, baseDelay |-> 0, attempt |-> 0,
                     lastError |-> -1, invoked |-> 0, waits |-> <<>>, result |-> -1,
                     thrown |-> -1]}
              [] sut = "limit" ->
                   {[pc |-> "idle", n |-> 0, limit |-> 0, next |-> 1,
                     task |-> [i \in 1..MaxTasks |-> "new"], executing |-> <<>>,
                     results |-> <<>>, raceOn |-> {}, returned |-> <<>>,
                     starts |-> [i \in 1..MaxTasks |-> 0], finished |-> <<>>,
                     peak |-> 0]}
              [] sut = "batch" ->
                   {[batchSize |-> b, requestQueue |-> <<>>, timers |-> 0,
                     batches |-> <<>>, req |-> [id \in 1..MaxRequests |-> "none"],
                     outcome |-> [id \in 1..MaxRequests |-> "none"],
                     resolvedWith |-> [id \in 1..MaxRequests |-> "none"],
                     runs |-> [id \in 1..MaxRequests |-> 0],
                     late |-> [id \in 1..MaxRequests |-> FALSE], largest |-> 0]
                      : b \in 1..MaxBatchSize}
              [] sut = "bank" ->
                   {[balance |-> InitialBalance, calls |-> 0, op |-> "none",
                     amount |-> [type |-> "undefined", nan |-> FALSE, value |-> 0],
                     before |-> InitialBalance, ret |-> "none"]}
              [] sut = "logger" ->
                   {[instance |-> 0, allocated |-> 0, calls |-> 0, logCalls |-> 0,
                     logs |-> [o \in 1..MaxLoggerCalls |-> <<>>], returned |-> {}]}
              [] sut = "tests" ->
                   {[passed |-> 0, failed |-> 0, plan |-> <<>>, next |-> 1,
                     planned |-> 0, itCalls |-> 0, returned |-> 0, threw |-> 0]}
              [] sut = "emitter" ->
                   {[events |-> <<>>, stack |-> <<>>, registered |-> 0, emits |-> 0,
                     kind |-> [l \in 1..MaxListeners |-> "none"],
                     invoked |-> [l \in 1..MaxListeners |-> 0], reentrant |-> FALSE]}
              [] OTHER -> {"none"}

NoArrayCall == [op |-> "none", key |-> NoKey, computed |-> FALSE, ret |-> Null,
                afterClear |-> FALSE]

ArrayInit ==
    /\ arrayCache = <<>>
    /\ processed = {}
    /\ arrayLast = NoArrayCall

TimerInit ==
    /\ timers = {}
    /\ debounceTimers = <<>>
    /\ throttleFlags = <<>>
    /\ timerLog = <<>>

KeyInit ==
    /\ argLists \in (IF sut = "keyed"
                     THEN [1..MaxKeyCalls -> UNION {[1..n -> JsValues] : n \in 0..MaxArgs}]
                     ELSE {<<>>})
    /\ keyCache = <<>>
    /\ keyLog = <<>>

TtlInit ==
    /\ ttlCache = <<>>
    /\ now = 0
    /\ ttlLast = NoTtlCall

AsyncInit ==
    /\ calls = [c \in CallIds |-> Idle]
    /\ requestCache = <<>>

MemoInit ==
    /\ memoCache = <<>>
    /\ promiseState = [p \in Promises |-> "unused"]
    /\ memoLast = NoMemoCall
    /\ streak = NoStreak
    /\ memoTouch = <<>>
    /\ evictedKeys = {}
    /\ failedKeys = {}
    /\ fnReturns = [k \in Keys |-> 0]

LruInit ==
    /\ lruCache = <<>>
    /\ lruLast = NoCall
    /\ touchOrder = <<>>
    /\ setOrder = <<>>
    /\ setRun = <<>>

Init ==
    /\ sut \in {"lru", "ttl", "apimodule", "apimanager", "keyed", "arraymanager",
                "debounce", "utilsDebounce", "throttle", "utilsThrottle", "editor",
                "retry", "limit", "batch", "bank",
                "logger", "tests", "emitter"}
              \cup Wrappers
    /\ maxCacheSize \in (IF sut = "lru" THEN 1..MaxCapacity ELSE {1})
    /\ cacheSize \in (IF sut = "memoize" THEN -1..MaxCapacity ELSE {0})
    /\ fnKind \in (IF sut \in Wrappers THEN {"sync", "async"} ELSE {"sync"})
    /\ LruInit
    /\ MemoInit
    /\ TtlInit
    /\ AsyncInit
    /\ KeyInit
    /\ ArrayInit
    /\ TimerInit
    /\ ObjInit

\* ------------------------------------------------------------- actions
\* What lruGet(key) does to the CacheOptimizer.
LruGetEffect(k) ==
    /\ lruCache' = LruGetCache(lruCache, k)
    /\ lruLast' = [op |-> "get", key |-> k, hit |-> MapHas(lruCache, k),
                   ret |-> LruGetValue(lruCache, k),
                   evicted |-> Dropped(lruCache, lruCache'),
                   lruVictim |-> NoKey, fifoVictim |-> NoKey]
    /\ touchOrder' = IF MapHas(lruCache, k) THEN Touch(touchOrder, k) ELSE touchOrder
    /\ setRun' = <<>>
    /\ UNCHANGED <<maxCacheSize, setOrder>>

\* What lruSet(key, value) does to the CacheOptimizer.
LruSetEffect(k, v) ==
    /\ lruCache' = LruSetCache(lruCache, maxCacheSize, k, v)
    /\ lruLast' = [op |-> "set", key |-> k, hit |-> MapHas(lruCache, k), ret |-> Null,
                   evicted |-> Dropped(lruCache, lruCache'),
                   lruVictim |-> IF LruSetEvicts(lruCache, maxCacheSize, k)
                                 THEN Oldest(touchOrder) ELSE NoKey,
                   fifoVictim |-> IF LruSetEvicts(lruCache, maxCacheSize, k)
                                  THEN Oldest(setOrder) ELSE NoKey]
    /\ touchOrder' = Restrict(Touch(touchOrder, k), lruCache')
    /\ setOrder' = Restrict(Touch(setOrder, k), lruCache')
    /\ setRun' = ExtendRun(setRun, Entry(k, v), maxCacheSize + 1)
    /\ UNCHANGED maxCacheSize

\* cacheOptimizer.lruGet(key)
LruGet(k) ==
    /\ sut = "lru"
    /\ LruGetEffect(k)
    /\ UNCHANGED <<sut, obj, keyVars, arrayVars, timerVars, memoVars, ttlVars, asyncVars>>

\* cacheOptimizer.lruSet(key, value)
LruSet(k, v) ==
    /\ sut = "lru"
    /\ LruSetEffect(k, v)
    /\ UNCHANGED <<sut, obj, keyVars, arrayVars, timerVars, memoVars, ttlVars, asyncVars>>

\* cacheOptimizer.fetchWithCache(url, options) up to its await: a cached response
\* is returned at once, otherwise simulateFetch is started.
FetchWithCache(c, k) ==
    /\ sut = "lru"
    /\ calls[c].pc = "idle"
    /\ LruGetEffect(k)
    /\ calls' = IF Truthy(LruGetValue(lruCache, k)) THEN calls
                 ELSE [calls EXCEPT ![c] = [Idle EXCEPT !.pc = "fetch", !.key = k]]
    /\ UNCHANGED <<sut, obj, keyVars, arrayVars, timerVars, memoVars, ttlVars, requestCache>>

\* simulateFetch resolves: the response is stored and returned.
FetchResolved(c) ==
    /\ sut = "lru"
    /\ calls[c].pc = "fetch"
    /\ LruSetEffect(calls[c].key, Response)
    /\ calls' = [calls EXCEPT ![c] = Idle]
    /\ UNCHANGED <<sut, obj, keyVars, arrayVars, timerVars, memoVars, ttlVars, requestCache>>

\* ttlCache.set(key, value, ttl)
TtlSet(k, v, ttl) ==
    /\ sut = "ttl"
    /\ ttlCache' = TtlSetCache(ttlCache, now, k, v, ttl)
    /\ ttlLast' = [TtlOtherRecord("set", k, now) EXCEPT
                      !.present = MapHas(ttlCache, k), !.stored = v, !.ttl = ttl]
    /\ UNCHANGED <<sut, obj, keyVars, arrayVars, timerVars, now, lruVars, memoVars, asyncVars>>

\* ttlCache.get(key)
TtlGet(k) ==
    /\ sut = "ttl"
    /\ ttlCache' = TtlGetCache(ttlCache, now, k)
    /\ ttlLast' = TtlGetRecord(ttlCache, now, k, TtlGetValue(ttlCache, now, k))
    /\ UNCHANGED <<sut, obj, keyVars, arrayVars, timerVars, now, lruVars, memoVars, asyncVars>>

\* ttlCache.clear()
TtlClear ==
    /\ sut = "ttl"
    /\ ttlCache' = MapClear(ttlCache)
    /\ ttlLast' = [TtlOtherRecord("clear", NoKey, now) EXCEPT !.removed = Len(ttlCache)]
    /\ UNCHANGED <<sut, obj, keyVars, arrayVars, timerVars, now, lruVars, memoVars, asyncVars>>

\* ttlCache.cleanup()
TtlCleanup ==
    /\ sut = "ttl"
    /\ ttlCache' = TtlCleanupCache(ttlCache, now)
    /\ ttlLast' = [TtlOtherRecord("cleanup", NoKey, now) EXCEPT
                      !.removed = Len(ttlCache) - Len(ttlCache')]
    /\ UNCHANGED <<sut, obj, keyVars, arrayVars, timerVars, now, lruVars, memoVars, asyncVars>>

\* Time passes.
Tick ==
    /\ sut \in {"ttl", "apimodule"}
    /\ now < MaxTime
    /\ now' = now + 1
    /\ UNCHANGED <<sut, obj, keyVars, arrayVars, timerVars, ttlCache, ttlLast, lruVars, memoVars, asyncVars>>

\* APIModule.get(endpoint) up to its await: a cached item is returned at once,
\* otherwise the request is made.
ApiModuleGet(c, k) ==
    /\ sut = "apimodule"
    /\ calls[c].pc = "idle"
    /\ ttlCache' = GetCacheItemCache(ttlCache, now, k)
    /\ ttlLast' = TtlGetRecord(ttlCache, now, k, GetCacheItemValue(ttlCache, now, k))
    /\ calls' = IF Truthy(GetCacheItemValue(ttlCache, now, k)) THEN calls
                 ELSE [calls EXCEPT ![c] = [Idle EXCEPT !.pc = "request", !.key = k]]
    /\ UNCHANGED <<sut, obj, keyVars, arrayVars, timerVars, now, lruVars, memoVars, requestCache>>

\* The request of an APIModule.get resolves: the data is cached and returned.
ApiModuleGetResolved(c) ==
    /\ sut = "apimodule"
    /\ calls[c].pc = "request"
    /\ ttlCache' = SetCacheItem(ttlCache, now, calls[c].key, Data)
    /\ ttlLast' = [TtlOtherRecord("set", calls[c].key, now) EXCEPT
                      !.present = MapHas(ttlCache, calls[c].key), !.stored = Data,
                      !.ttl = MaxTTL]
    /\ calls' = [calls EXCEPT ![c] = Idle]
    /\ UNCHANGED <<sut, obj, keyVars, arrayVars, timerVars, now, lruVars, memoVars, requestCache>>

\* APIModule.clearCache()
ApiModuleClearCache ==
    /\ sut = "apimodule"
    /\ ttlCache' = MapClear(ttlCache)
    /\ ttlLast' = [TtlOtherRecord("clear", NoKey, now) EXCEPT !.removed = Len(ttlCache)]
    /\ UNCHANGED <<sut, obj, keyVars, arrayVars, timerVars, now, calls, lruVars, memoVars, requestCache>>

\* ApiManager.get(endpoint, useCache) up to its first await (getBatch makes one
\* such call per endpoint before any of them continues): cached data is returned
\* at once, otherwise fetchWithRetry starts its first attempt.
ApiGet(c, k, useCache) ==
    /\ sut = "apimanager"
    /\ calls[c].pc = "idle"
    /\ calls' = IF ApiCacheHit(requestCache, k, useCache) THEN calls
                 ELSE [calls EXCEPT ![c] = [pc |-> "attempt", key |-> k,
                                            useCache |-> useCache, attempt |-> 1]]
    /\ UNCHANGED <<sut, obj, keyVars, arrayVars, timerVars, requestCache, lruVars, memoVars, ttlVars>>

\* fetchWithRetry: an attempt before the last one throws the simulated network error.
ApiAttemptFails(c) ==
    /\ sut = "apimanager"
    /\ calls[c].pc = "attempt"
    /\ calls[c].attempt < MaxRetries
    /\ calls' = [calls EXCEPT ![c].pc = "backoff"]
    /\ UNCHANGED <<sut, obj, keyVars, arrayVars, timerVars, requestCache, lruVars, memoVars, ttlVars>>

\* fetchWithRetry: the backoff delay is over, the next attempt starts.
ApiBackoffOver(c) ==
    /\ sut = "apimanager"
    /\ calls[c].pc = "backoff"
    /\ calls' = [calls EXCEPT ![c].pc = "attempt", ![c].attempt = @ + 1]
    /\ UNCHANGED <<sut, obj, keyVars, arrayVars, timerVars, requestCache, lruVars, memoVars, ttlVars>>

\* fetchWithRetry: an attempt returns the response; get awaits response.json().
ApiAttemptReturns(c) ==
    /\ sut = "apimanager"
    /\ calls[c].pc = "attempt"
    /\ calls' = [calls EXCEPT ![c].pc = "json"]
    /\ UNCHANGED <<sut, obj, keyVars, arrayVars, timerVars, requestCache, lruVars, memoVars, ttlVars>>

\* ApiManager.get: the data arrived; it is cached (with useCache) and returned.
ApiDataArrived(c) ==
    /\ sut = "apimanager"
    /\ calls[c].pc = "json"
    /\ requestCache' = ApiStore(requestCache, calls[c].key, Data, calls[c].useCache)
    /\ calls' = [calls EXCEPT ![c] = Idle]
    /\ UNCHANGED <<sut, obj, keyVars, arrayVars, timerVars, lruVars, memoVars, ttlVars>>

\* What the wrapped fn does when it is invoked: "throw", or the value it returns.
FnOutcomes ==
    IF fnKind = "sync" THEN Results \cup {"throw"}
    ELSE {p \in Promises : promiseState[p] = "unused"}

\* How a call of the memoized function goes: answered from the cache ("hit"), or
\* fn is invoked and does one of FnOutcomes.
CallOutcomes == {"hit"} \cup FnOutcomes

\* One call g(...args) of the memoized function, key = JSON.stringify(args).
MemoCall(k, o) ==
    /\ sut \in Wrappers
    /\ streak.key = k => streak.calls < MaxStreak
    /\ (o = "hit") <=> Hit(sut, memoCache, k)
    /\ o # "hit" => fnReturns[k] < MaxCompute
    /\ memoCache' = IF o = "hit" THEN memoCache
                     ELSE IF o = "throw" THEN CacheOnThrow(sut, memoCache, cacheSize, k)
                     ELSE Store(sut, memoCache, cacheSize, k, o)
    /\ promiseState' = IF o \in Promises THEN [promiseState EXCEPT ![o] = "pending"]
                        ELSE promiseState
    /\ LET ret   == IF o = "hit" THEN MapGet(memoCache, k)
                    ELSE IF o = "throw" THEN Exception ELSE o
           gone  == Dropped(memoCache, memoCache')
           first == streak.key # k
       IN  /\ memoLast' = [op |-> "call", key |-> k, wasCached |-> MapHas(memoCache, k),
                           invoked |-> o # "hit", threw |-> o = "throw", ret |-> ret,
                           evicted |-> gone, lruVictim |-> Oldest(memoTouch),
                           afterEviction |-> k \in evictedKeys,
                           atCapacity |-> Len(memoCache) >= cacheSize]
           /\ streak' = [key |-> k,
                         calls |-> IF first THEN 1 ELSE streak.calls + 1,
                         invoked |-> (IF first THEN 0 ELSE streak.invoked)
                                     + (IF o = "hit" THEN 0 ELSE 1),
                         rets |-> (IF first THEN {} ELSE streak.rets) \cup {ret},
                         cachedAtStart |-> IF first THEN MapHas(memoCache, k)
                                           ELSE streak.cachedAtStart,
                         threw |-> (~first /\ streak.threw) \/ o = "throw"]
           /\ memoTouch' = IF o = "throw" THEN Restrict(memoTouch, memoCache')
                            ELSE Restrict(Touch(memoTouch, k), memoCache')
           /\ evictedKeys' = (evictedKeys \cup (IF gone = NoKey THEN {} ELSE {gone}))
                                \ MapKeys(memoCache')
           /\ failedKeys' = IF o = "throw" THEN failedKeys \cup {k} ELSE failedKeys \ {k}
           /\ fnReturns' = [x \in Keys |->
                               IF ~MapHas(memoCache', x) THEN 0
                               ELSE IF x = k /\ o \notin {"hit", "throw"}
                                    THEN fnReturns[x] + 1
                               ELSE fnReturns[x]]
    /\ UNCHANGED <<sut, obj, keyVars, arrayVars, timerVars, cacheSize, fnKind, lruVars, ttlVars, asyncVars>>

\* A promise returned by the wrapped asynchronous fn settles.
PromiseSettle(p, outcome) ==
    /\ sut \in Wrappers
    /\ promiseState[p] = "pending"
    /\ promiseState' = [promiseState EXCEPT ![p] = outcome]
    /\ UNCHANGED <<sut, obj, keyVars, arrayVars, timerVars, lruVars, memoCache, cacheSize, fnKind, memoLast, streak,
                   memoTouch, evictedKeys, failedKeys, fnReturns, ttlVars, asyncVars>>

\* The next call g(...args) of a function returned by memoize(fn), with the arguments
\* themselves: the key is derived, a cached result is returned, otherwise fn is
\* invoked and its result (which stands for the arguments it was computed from) is
\* stored.  An error of JSON.stringify leaves the wrapper before it touches the cache
\* (the log then holds no result: ret is empty).
KeyedCall ==
    /\ sut = "keyed"
    /\ Len(keyLog) < Len(argLists)
    /\ LET args == argLists[Len(keyLog) + 1]
           key  == CacheKey(args)
           hit  == key # TypeError /\ MemoizeHit(keyCache, key)
       IN  /\ keyCache' = IF key = TypeError \/ hit THEN keyCache
                            ELSE MemoizeStore(keyCache, DefaultCacheSize, key, args)
           /\ keyLog' = Append(keyLog,
                  [args |-> args, key |-> key, threw |-> key = TypeError,
                   invoked |-> key # TypeError /\ ~hit,
                   ret |-> IF key = TypeError THEN <<>>
                           ELSE IF hit THEN MapGet(keyCache, key) ELSE args,
                   stored |-> keyCache' # keyCache])
    /\ UNCHANGED <<sut, obj, argLists, lruVars, memoVars, ttlVars, asyncVars, arrayVars,
                   timerVars>>

\* arrayManager.processWithCache(arr, processor, cacheKey), r being processor(arr)
ProcessWithCache(k, r) ==
    /\ sut = "arraymanager"
    /\ arrayCache' = IF MapHas(arrayCache, k) THEN arrayCache ELSE MapSet(arrayCache, k, r)
    /\ processed' = IF MapHas(arrayCache, k) THEN processed ELSE processed \cup {k}
    /\ arrayLast' = [op |-> "process", key |-> k, computed |-> ~MapHas(arrayCache, k),
                     ret |-> IF MapHas(arrayCache, k) THEN MapGet(arrayCache, k) ELSE r,
                     afterClear |-> arrayLast.op = "clear"]
    /\ UNCHANGED <<sut, obj, lruVars, memoVars, ttlVars, asyncVars, keyVars, timerVars>>

\* arrayManager.clearCache()
ArrayClearCache ==
    /\ sut = "arraymanager"
    /\ arrayCache' = MapClear(arrayCache)
    /\ processed' = {}
    /\ arrayLast' = [NoArrayCall EXCEPT !.op = "clear", !.afterClear = arrayLast.op = "clear"]
    /\ UNCHANGED <<sut, obj, lruVars, memoVars, ttlVars, asyncVars, keyVars, timerVars>>

\* The record of a debounce / throttle call made now: ran counts the runs of its func.
TimerCall(k, d, ran) == [key |-> k, at |-> now, wait |-> d, ran |-> ran, ranAt |-> now]

\* A debounced function made by ModernUtils keeps the delay (limit) it was made with;
\* an EventOptimizer takes one with each call.
SameWait(k, d) ==
    sut \in {"utilsDebounce", "utilsThrottle"}
    => \A i \in 1..Len(timerLog) : timerLog[i].key = k => timerLog[i].wait = d

\* eventOptimizer.debounce(func, delay, key), or a call of the function
\* ModernUtils.debounce(func, delay) returned (key names the function).
Debounce(k, d) ==
    /\ sut \in {"debounce", "utilsDebounce"}
    /\ Len(timerLog) < MaxCalls
    /\ SameWait(k, d)
    /\ timers' = ClearTimeout(timers, debounceTimers, k)
                     \cup {Timer(Len(timerLog) + 1, k, now + d)}
    /\ debounceTimers' = MapSet(debounceTimers, k, Len(timerLog) + 1)
    /\ timerLog' = Append(timerLog, TimerCall(k, d, 0))
    /\ UNCHANGED <<sut, obj, throttleFlags, lruVars, memoVars, ttlVars, asyncVars, keyVars,
                   arrayVars>>

\* The timer of a debounce call fires: func runs; the EventOptimizer then deletes the
\* key from debounceTimers, a ModernUtils function keeps its timeoutId.
DebounceFires(t) ==
    /\ sut \in {"debounce", "utilsDebounce"}
    /\ t \in timers
    /\ t.due <= now
    /\ timers' = timers \ {t}
    /\ timerLog' = [timerLog EXCEPT ![t.id].ran = @ + 1, ![t.id].ranAt = now]
    /\ debounceTimers' = IF sut = "debounce" THEN MapDelete(debounceTimers, t.key)
                          ELSE debounceTimers
    /\ UNCHANGED <<sut, obj, throttleFlags, lruVars, memoVars, ttlVars, asyncVars, keyVars,
                   arrayVars>>

\* eventOptimizer.throttle(func, limit, key), or a call of the function
\* ModernUtils.throttle(func, limit) returned: dropped while the flag is set,
\* otherwise func runs, the flag is set and a timer is set to reset it.
Throttle(k, d) ==
    /\ sut \in {"throttle", "utilsThrottle"}
    /\ Len(timerLog) < MaxCalls
    /\ SameWait(k, d)
    /\ IF InThrottle(throttleFlags, k)
       THEN /\ timerLog' = Append(timerLog, TimerCall(k, d, 0))
            /\ UNCHANGED <<timers, throttleFlags>>
       ELSE /\ timerLog' = Append(timerLog, TimerCall(k, d, 1))
            /\ throttleFlags' = MapSet(throttleFlags, k, TRUE)
            /\ timers' = timers \cup {Timer(Len(timerLog) + 1, k, now + d)}
    /\ UNCHANGED <<sut, obj, debounceTimers, lruVars, memoVars, ttlVars, asyncVars, keyVars,
                   arrayVars>>

\* The timer of a throttle call fires: the flag of its key is reset.
ThrottleResets(t) ==
    /\ sut \in {"throttle", "utilsThrottle"}
    /\ t \in timers
    /\ t.due <= now
    /\ timers' = timers \ {t}
    /\ throttleFlags' = MapDelete(throttleFlags, t.key)
    /\ UNCHANGED <<sut, obj, debounceTimers, timerLog, lruVars, memoVars, ttlVars, asyncVars,
                   keyVars, arrayVars>>

\* Time passes, up to the next due time: a timer fires when it is due.  The clock
\* runs past MaxTime only while timers are pending.
TimePasses ==
    /\ sut \in {"debounce", "utilsDebounce", "throttle", "utilsThrottle"}
    /\ now < MaxTime \/ timers # {}
    /\ \A t \in timers : t.due > now
    /\ now' = now + 1
    /\ UNCHANGED <<sut, obj, ttlCache, ttlLast, timerVars, lruVars, memoVars, asyncVars,
                   keyVars, arrayVars>>

\* invoker.execute(command)
InvokerExecute(c) ==
    /\ sut = "editor"
    /\ Len(TruncateHistory(obj.history, obj.currentPosition)) < MaxHistory
    /\ Len(obj.content) + Len(c.text) <= MaxContent
    /\ LET done == CommandExecute(c, obj.content)
       IN  obj' = EditorCall(obj, "execute",
                     [content |-> done.content,
                      history |-> Append(TruncateHistory(obj.history, obj.currentPosition),
                                         done.command),
                      currentPosition |-> obj.currentPosition + 1])
    /\ UNCHANGED <<sut, cacheVars>>

\* invoker.undo()
InvokerUndo ==
    /\ sut = "editor"
    /\ obj' = EditorCall(obj, "undo",
                  IF obj.currentPosition >= 0
                  THEN [content |-> CommandUndo(obj.history[obj.currentPosition + 1],
                                                obj.content),
                        history |-> obj.history,
                        currentPosition |-> obj.currentPosition - 1]
                  ELSE obj)
    /\ UNCHANGED <<sut, cacheVars>>

\* invoker.redo()
InvokerRedo ==
    /\ sut = "editor"
    /\ obj' = EditorCall(obj, "redo",
                  IF obj.currentPosition < Len(obj.history) - 1
                  THEN LET done == CommandExecute(obj.history[obj.currentPosition + 2],
                                                  obj.content)
                       IN  [content |-> done.content,
                            history |-> [obj.history EXCEPT
                                            ![obj.currentPosition + 2] = done.command],
                            currentPosition |-> obj.currentPosition + 1]
                  ELSE obj)
    /\ UNCHANGED <<sut, cacheVars>>

\* The calls on a CacheOptimizer.
NextLru ==
    \/ \E k \in Keys : LruGet(k)
    \/ \E k \in Keys, v \in Values : LruSet(k, v)
    \/ \E c \in CallIds, k \in Keys : FetchWithCache(c, k)
    \/ \E c \in CallIds : FetchResolved(c)

\* The calls of a memoized function.
NextMemo ==
    \/ \E k \in Keys, o \in CallOutcomes : MemoCall(k, o)
    \/ \E p \in Promises, o \in {"fulfilled", "rejected"} : PromiseSettle(p, o)

\* The calls on a TTL cache and on an APIModule.
NextTtl ==
    \/ \E k \in TtlKeys, v \in Values, ttl \in -1..MaxTTL : TtlSet(k, v, ttl)
    \/ \E k \in TtlKeys : TtlGet(k)
    \/ TtlClear
    \/ TtlCleanup
    \/ Tick
    \/ \E c \in CallIds, k \in Endpoints : ApiModuleGet(c, k)
    \/ \E c \in CallIds : ApiModuleGetResolved(c)
    \/ ApiModuleClearCache

\* The calls on an ApiManager.
NextApiManager ==
    \/ \E c \in CallIds, k \in Endpoints, u \in BOOLEAN : ApiGet(c, k, u)
    \/ \E c \in CallIds : ApiAttemptFails(c)
    \/ \E c \in CallIds : ApiBackoffOver(c)
    \/ \E c \in CallIds : ApiAttemptReturns(c)
    \/ \E c \in CallIds : ApiDataArrived(c)

\* The calls of a memoized function, seen with their arguments.
NextKeys == KeyedCall

\* The calls on an ArrayManager.
NextArray ==
    \/ \E k \in Keys, r \in Values : ProcessWithCache(k, r)
    \/ ArrayClearCache

\* The debounce calls and their timers.
NextDebounce ==
    \/ \E k \in TimerKeys, d \in Delays : Debounce(k, d)
    \/ \E id \in 1..MaxCalls : DebounceFires(TimerOf(id))
    \/ TimePasses

\* The throttle calls and their timers.
NextThrottle ==
    \/ \E k \in TimerKeys, d \in Delays : Throttle(k, d)
    \/ \E id \in 1..MaxCalls : ThrottleResets(TimerOf(id))
    \/ TimePasses

\* The calls on an EditorInvoker.
NextEditor ==
    \/ \E c \in Commands : InvokerExecute(c)
    \/ InvokerUndo
    \/ InvokerRedo

\* The batchRequests calls on an AsyncOptimizer, its timers and its requests.
NextBatch ==
    \/ \E id \in 1..MaxRequests : BatchRequests(id)
    \/ ProcessBatch
    \/ \E id \in 1..MaxRequests, o \in {"fulfilled", "rejected"} : RequestSettles(id, o)
    \/ \E k \in 1..MaxRequests : BatchSettled(k)

\* The calls on an AsyncOptimizer and what they wait for.
NextAsync ==
    \/ \E m \in -1..MaxRetries, b \in Delays : RetryWithBackoff(m, b)
    \/ \E ok \in BOOLEAN : RetryFnSettles(ok)
    \/ RetryBackoffOver
    \/ \E n \in 0..MaxTasks, limit \in 0..MaxLimit : LimitConcurrency(n, limit)
    \/ LimitNextTask
    \/ \E i \in 1..MaxTasks : TaskSettles(i)
    \/ LimitRaceWon
    \/ LimitReturns
    \/ NextBatch

\* The calls on the bankAccount.
NextBank ==
    \/ \E amount \in Amounts : Deposit(amount)
    \/ \E amount \in Amounts : Withdraw(amount)

\* The calls that make, fetch and use a Logger.
NextLogger ==
    \/ NewLogger
    \/ GetInstance
    \/ \E logger \in 1..MaxLoggerCalls, level \in {"info", "warning"} : Log(logger, level)

\* The describe blocks of a SimpleTest and their it calls.
NextTests ==
    \/ \E n \in 0..MaxTests : \E plan \in [1..n -> TestBodies] : Describe(plan)
    \/ It

\* The calls on an EventEmitter and the steps of its deliveries.
NextEmitter ==
    \/ On
    \/ Once
    \/ Emit
    \/ CallListener
    \/ ListenerReturns

Next ==
    \/ NextLru \/ NextMemo \/ NextTtl \/ NextApiManager \/ NextKeys \/ NextArray
    \/ NextDebounce \/ NextThrottle \/ NextEditor \/ NextAsync
    \/ NextBank \/ NextLogger \/ NextTests \/ NextEmitter

\* Every object.
Spec == Init /\ [][Next]_vars

\* A CacheOptimizer.
InitLru == sut = "lru" /\ Init
SpecLru == InitLru /\ [][NextLru]_vars

\* A memoizing wrapper.
InitMemo == sut \in Wrappers /\ Init
SpecMemo == InitMemo /\ [][NextMemo]_vars

\* The bounded stores: a CacheOptimizer, or a function returned by memoize(fn, cacheSize).
InitBounded == sut \in {"lru", "memoize"} /\ Init
NextBounded == NextLru \/ NextMemo
SpecBounded == InitBounded /\ [][NextBounded]_vars

\* The TTL caches: one made by createTTLCache, or the cache of an APIModule.
InitTtl == sut \in {"ttl", "apimodule"} /\ Init
SpecTtl == InitTtl /\ [][NextTtl]_vars

\* The caches in front of an asynchronous request: fetchWithCache, or ApiManager.get.
InitRequests == sut \in {"lru", "apimanager"} /\ Init
NextRequests == NextLru \/ NextApiManager
SpecRequests == InitRequests /\ [][NextRequests]_vars

\* A memoized function called with concrete argument lists.
InitKeys == sut = "keyed" /\ Init
SpecKeys == InitKeys /\ [][NextKeys]_vars

\* The caches that can be cleared: the TTL caches and the cache of an ArrayManager.
InitClear == sut \in {"ttl", "apimodule", "arraymanager"} /\ Init
NextClear == NextTtl \/ NextArray
SpecClear == InitClear /\ [][NextClear]_vars

\* The stores with get and set: a CacheOptimizer's LRU cache and the TTL caches.
InitStores == sut \in {"lru", "ttl", "apimodule"} /\ Init
NextStores == NextLru \/ NextTtl
SpecStores == InitStores /\ [][NextStores]_vars

\* Debouncing: EventOptimizer.debounce, or a function made by ModernUtils.debounce.
InitDebounce == sut \in {"debounce", "utilsDebounce"} /\ Init
SpecDebounce == InitDebounce /\ [][NextDebounce]_vars

\* Throttling: EventOptimizer.throttle, or a function made by ModernUtils.throttle.
InitThrottle == sut \in {"throttle", "utilsThrottle"} /\ Init
SpecThrottle == InitThrottle /\ [][NextThrottle]_vars

\* A TextEditor driven through an EditorInvoker.
InitEditor == sut = "editor" /\ Init
SpecEditor == InitEditor /\ [][NextEditor]_vars

\* An AsyncOptimizer: retryWithBackoff, limitConcurrency, batchRequests.
InitAsync == sut \in {"retry", "limit", "batch"} /\ Init
SpecAsync == InitAsync /\ [][NextAsync]_vars

\* The batch queue of an AsyncOptimizer, where every timer set fires, every request
\* run completes and every resolved Promise.allSettled is followed by its continuation.
InitBatch == sut = "batch" /\ Init
SpecBatch ==
    /\ InitBatch
    /\ [][NextBatch]_vars
    /\ WF_vars(ProcessBatch)
    /\ WF_vars(\E id \in 1..MaxRequests, o \in {"fulfilled", "rejected"} :
                  RequestSettles(id, o))
    /\ WF_vars(\E k \in 1..MaxRequests : BatchSettled(k))

\* The bankAccount module.
InitBank == sut = "bank" /\ Init
SpecBank == InitBank /\ [][NextBank]_vars

\* The Logger singleton.
InitLogger == sut = "logger" /\ Init
SpecLogger == InitLogger /\ [][NextLogger]_vars

\* A SimpleTest.
InitTests == sut = "tests" /\ Init
SpecTests == InitTests /\ [][NextTests]_vars

\* An EventEmitter.
InitEmitter == sut = "emitter" /\ Init
SpecEmitter == InitEmitter /\ [][NextEmitter]_vars

\* ============================================================= claims

\* C1  Capacity invariant: after every lruGet / lruSet the lruCache holds at most
\* maxCacheSize entries, and after every call of a function returned by
\* memoize(fn, cacheSize) with cacheSize >= 1 its cache holds at most cacheSize.
CapacityInvariant ==
    /\ sut = "lru" => Len(lruCache) <= maxCacheSize
    /\ (sut = "memoize" /\ cacheSize >= 1) => Len(memoCache) <= cacheSize

CapacityInvariantWitness ==
    /\ sut = "memoize"
    /\ cacheSize >= 1
    /\ memoLast.evicted # NoKey
    /\ Len(memoCache) = cacheSize

\* C2  Memoization call count: in a run of calls with the same arguments, none of
\* which threw, the wrapped fn was invoked once (not at all when the key was
\* cached before the run) and every call returned the same result.
MemoCallCount ==
    (sut \in Wrappers /\ streak.calls >= 1 /\ ~streak.threw) =>
        /\ streak.invoked = (IF streak.cachedAtStart THEN 0 ELSE 1)
        /\ Cardinality(streak.rets) = 1

\* The same, of the two wrappers that test cache.has(key).
MemoCallCountOfMaps ==
    sut \in {"memoize", "decorator"} => MemoCallCount

\* C3  LRU correctness: once maxCacheSize + 1 lruSet calls with pairwise different
\* keys k1..k(N+1) were made with no lruGet between them, k1 is gone from the
\* store, the store holds exactly k2..k(N+1), and lruGet would return for each of
\* them the value that was set.
LruCorrectness ==
    (sut = "lru" /\ Len(setRun) = maxCacheSize + 1) =>
        /\ ~MapHas(lruCache, setRun[1].key)
        /\ LruGetValue(lruCache, setRun[1].key) = Null
        /\ MapKeys(lruCache) = {setRun[i].key : i \in 2..Len(setRun)}
        /\ \A i \in 2..Len(setRun) :
               LruGetValue(lruCache, setRun[i].key) = setRun[i].value

LruCorrectnessWitness ==
    /\ sut = "lru"
    /\ maxCacheSize = MaxCapacity
    /\ Len(setRun) = maxCacheSize + 1
    /\ lruLast.op = "set"
    /\ lruLast.evicted = setRun[1].key

\* C4  Recency refresh: the store's iteration order is the order of the entries'
\* last lruGet hit or lruSet; a hit leaves its entry last (most recently used);
\* and the entry an inserting lruSet evicts from a full store is the one whose
\* last lruGet hit or lruSet is oldest.
RecencyRefresh ==
    sut = "lru" =>
        /\ KeySeq(lruCache) = touchOrder
        /\ (lruLast.op = "get" /\ lruLast.hit) =>
               /\ lruCache[Len(lruCache)].key = lruLast.key
               /\ lruLast.ret = lruCache[Len(lruCache)].value
               /\ lruLast.evicted = NoKey
        /\ (lruLast.op = "set") =>
               /\ lruLast.evicted = lruLast.lruVictim
               /\ lruCache[Len(lruCache)].key = lruLast.key

\* A promotion decided the eviction: the evicted entry is not the one set longest ago.
RecencyRefreshWitness ==
    /\ sut = "lru"
    /\ lruLast.op = "set"
    /\ lruLast.evicted # NoKey
    /\ lruLast.evicted # lruLast.fifoVictim

\* C5  memoize(fn, cacheSize) evicts by recency of access: the entry a call removes
\* is the one that has gone longest without a cache hit or an insert.
MemoizeEvictsLeastRecent ==
    (sut = "memoize" /\ memoLast.evicted # NoKey) =>
        memoLast.evicted = memoLast.lruVictim

\* C6  In-flight sharing: of the calls that have started the underlying request
\* for one key and are still awaiting it, there is at most one - a second call
\* with the same key (fetchWithCache; ApiManager.get with useCache) shares the
\* outstanding request instead of starting another.
InFlightSharing ==
    sut \in {"lru", "apimanager"} =>
        \A k \in Keys :
            Cardinality({c \in Outstanding(k) :
                            sut = "apimanager" => calls[c].useCache}) <= 1

\* The same, of each of the two objects.
InFlightSharingFetch == sut = "lru" => InFlightSharing
InFlightSharingApiManager == sut = "apimanager" => InFlightSharing

FailedPendingRemoved ==
    sut \in Wrappers =>
        \A i \in 1..Len(memoCache) :
            memoCache[i].value \in Promises =>
                promiseState[memoCache[i].value] # "rejected"

\* C9  TTL expiry: a get(k) of a stored entry made after its expiry time returns
\* null and removes the entry from the Map; one made before its expiry time
\* returns the stored value and leaves the entry in place.
TtlExpiry ==
    (sut \in {"ttl", "apimodule"} /\ ttlLast.op = "get" /\ ttlLast.present) =>
        /\ ttlLast.at > ttlLast.expireAt =>
               /\ ttlLast.ret = Null
               /\ ~MapHas(ttlCache, ttlLast.key)
        /\ ttlLast.at < ttlLast.expireAt =>
               /\ ttlLast.ret = ttlLast.stored
               /\ MapHas(ttlCache, ttlLast.key)
               /\ MapGet(ttlCache, ttlLast.key) = TtlItem(ttlLast.stored, ttlLast.expireAt)

\* An entry that was stored with a positive ttl is read after it expired.
TtlExpiryWitness ==
    /\ sut = "ttl"
    /\ ttlLast.op = "get"
    /\ ttlLast.present
    /\ ttlLast.expireAt >= 1
    /\ ttlLast.at > ttlLast.expireAt
    /\ ttlLast.ret = Null

\* C10  Recompute after eviction, and only then: a call of the function returned
\* by memoize invokes fn exactly when its key is not cached; a cached key's fn
\* has returned once since the key was last uncached; and the first call after
\* the key's entry was evicted invokes fn again.
RecomputeOnlyWhenUncached ==
    sut = "memoize" =>
        /\ memoLast.op = "call" => (memoLast.invoked <=> ~memoLast.wasCached)
        /\ (memoLast.op = "call" /\ memoLast.afterEviction) => memoLast.invoked
        /\ \A k \in Keys : fnReturns[k] = (IF MapHas(memoCache, k) THEN 1 ELSE 0)
        /\ \A k \in evictedKeys : ~MemoizeHit(memoCache, k)

RecomputeOnlyWhenUncachedWitness ==
    /\ sut = "memoize"
    /\ cacheSize >= 1
    /\ memoLast.afterEviction
    /\ memoLast.invoked
    /\ ~memoLast.threw
    /\ MapHas(memoCache, memoLast.key)

\* C11  Key derivation: of two calls whose arguments hold no function, symbol or
\* circular structure, the derived keys are equal exactly when the argument lists
\* are structurally equal (same values, same order, same types).
KeyDerivation ==
    \A i, j \in 1..Len(keyLog) :
        (Serializable(JsArray(keyLog[i].args)) /\ Serializable(JsArray(keyLog[j].args)))
        => ((keyLog[i].args = keyLog[j].args) <=> (keyLog[i].key = keyLog[j].key))

\* C12  Unserializable arguments: a call with an argument that is or holds a
\* function, a symbol or a circular structure ends in an error, without invoking fn
\* and without changing the cache.
UnserializableRejected ==
    \A i \in 1..Len(keyLog) :
        ~Serializable(JsArray(keyLog[i].args))
        => (keyLog[i].threw /\ ~keyLog[i].invoked /\ ~keyLog[i].stored)

\* C13  Non-positive capacity: a function returned by memoize(fn, cacheSize) with
\* cacheSize <= 0 never holds an entry in its cache (such a construction is to fail,
\* so no cache of capacity <= 0 comes to store anything).
NonPositiveCapacityStoresNothing ==
    (sut = "memoize" /\ cacheSize <= 0) => Len(memoCache) = 0

\* C14  Negative ttl: a set(key, value, ttl) with ttl < 0 on the TTL cache leaves the
\* store as it was (the call is to fail).
NegativeTtlRejected ==
    [][(sut = "ttl" /\ ttlLast'.op = "set" /\ ttlLast'.ttl < 0) => ttlCache' = ttlCache]_vars

\* C15  Sweep: a cleanup() leaves in the store exactly the entries that were in it and
\* not past their expiry at the time of the call, each with its value and expiry, in
\* the order they had.
SweepRemovesExpired ==
    [][(sut = "ttl" /\ ttlLast'.op = "cleanup" /\ now' = now) =>
        /\ \A k \in TtlKeys :
              MapHas(ttlCache', k) <=>
                  (MapHas(ttlCache, k) /\ ~(now > MapGet(ttlCache, k).expireAt))
        /\ \A k \in MapKeys(ttlCache') : MapGet(ttlCache', k) = MapGet(ttlCache, k)
        /\ \A i, j \in 1..Len(ttlCache') :
              i < j => \E a, b \in 1..Len(ttlCache) :
                          /\ a < b
                          /\ ttlCache[a].key = ttlCache'[i].key
                          /\ ttlCache[b].key = ttlCache'[j].key]_vars

\* A cleanup() has just removed one entry and kept another, which expires now.
SweepRemovesExpiredWitness ==
    /\ sut = "ttl"
    /\ ttlLast.op = "cleanup"
    /\ ttlLast.at = now
    /\ ttlLast.removed = 1
    /\ Len(ttlCache) = 1
    /\ ttlCache[1].value.expireAt = now

\* C16  Clear: after clear() / clearCache() the store holds no entry and a get of any
\* key misses; the next cached call after it computes again (processWithCache runs
\* the processor, APIModule.get makes the request, get returns null); a second clear
\* right after the first changes nothing.
ClearEmpties ==
    /\ [](ttlLast.op = "clear" =>
            /\ Len(ttlCache) = 0
            /\ \A k \in TtlKeys : TtlGetValue(ttlCache, now, k) = Null)
    /\ [](arrayLast.op = "clear" => (Len(arrayCache) = 0 /\ processed = {}))
    /\ []((arrayLast.op = "process" /\ arrayLast.afterClear) => arrayLast.computed)
    /\ [][(ttlLast.op = "clear" /\ ttlLast'.op = "get") =>
            /\ ttlLast'.ret = Null
            /\ sut = "apimodule" => calls' # calls]_vars
    /\ [][(ttlLast.op = "clear" /\ ttlLast'.op = "clear") => ttlCache' = ttlCache]_vars
    /\ [][(arrayLast.op = "clear" /\ arrayLast'.op = "clear") =>
            (arrayCache' = arrayCache /\ processed' = processed)]_vars

\* A clear() has removed two entries of a TTL cache, and time has passed since.
ClearEmptiesWitness ==
    /\ sut = "ttl"
    /\ ttlLast.op = "clear"
    /\ ttlLast.removed = 2
    /\ now > ttlLast.at

\* A get of key k would return a value now.
Readable(k) ==
    IF sut = "lru" THEN LruGetValue(lruCache, k) # Null
    ELSE TtlGetValue(ttlCache, now, k) # Null

\* C17  Entry lifecycle: a key whose get misses (never stored, evicted, expired or
\* cleared) becomes readable again only by a set of that very key (a call's own or
\* the one that stores a fetched result); no call on another key and no passage of
\* time brings it back.
EntryLifecycle ==
    [][\A k \in Keys :
          (~Readable(k) /\ Readable(k)') =>
              IF sut = "lru" THEN lruLast'.op = "set" /\ lruLast'.key = k
              ELSE ttlLast'.op = "set" /\ ttlLast'.key = k /\ now' = now]_vars

\* An entry of the TTL cache is past its expiry and still in the Map, while a get of
\* another key has just returned a value.
EntryLifecycleWitness ==
    /\ sut = "ttl"
    /\ ttlLast.op = "get"
    /\ ttlLast.at = now
    /\ ttlLast.ret # Null
    /\ \E k \in TtlKeys \ {ttlLast.key} :
          /\ MapHas(ttlCache, k)
          /\ MapGet(ttlCache, k).expireAt >= 1
          /\ now > MapGet(ttlCache, k).expireAt

\* C18  Overwrite: a set on a key that is in the store replaces its value and removes
\* or changes no other entry, even when the store is full; lruSet moves the key to the
\* most recently used end, a TTL set (ttl >= 0) sets its expiry to now + ttl.
OverwriteReplaces ==
    /\ [][(sut = "lru" /\ lruLast'.op = "set" /\ MapHas(lruCache, lruLast'.key)) =>
            /\ Len(lruCache') = Len(lruCache)
            /\ lruCache'[Len(lruCache')]
                   = Entry(lruLast'.key, setRun'[Len(setRun')].value)
            /\ MapDelete(lruCache', lruLast'.key) = MapDelete(lruCache, lruLast'.key)]_vars
    /\ [][(/\ sut \in {"ttl", "apimodule"}
           /\ ttlLast'.op = "set" /\ now' = now /\ ttlLast'.ttl >= 0
           /\ MapHas(ttlCache, ttlLast'.key)) =>
            /\ Len(ttlCache') = Len(ttlCache)
            /\ MapGet(ttlCache', ttlLast'.key)
                   = TtlItem(ttlLast'.stored, now + ttlLast'.ttl)
            /\ MapDelete(ttlCache', ttlLast'.key) = MapDelete(ttlCache, ttlLast'.key)]_vars

\* A full CacheOptimizer of capacity two has just had the value of a cached key set
\* again, and the other entry is still there.
OverwriteReplacesWitness ==
    /\ sut = "lru"
    /\ maxCacheSize = 2
    /\ lruLast.op = "set"
    /\ lruLast.hit
    /\ lruLast.evicted = NoKey
    /\ Len(lruCache) = 2

\* The calls made after call i under the same key.
LaterCalls(i) == {j \in (i + 1)..Len(timerLog) : timerLog[j].key = timerLog[i].key}

\* The calls made before call i under the same key whose func ran.
EarlierRuns(i) == {j \in 1..(i - 1) : timerLog[j].key = timerLog[i].key /\ timerLog[j].ran = 1}

UndoRedoRoundTrip ==
    sut = "editor" =>
        /\ obj.trip = "undone" => obj.content = obj.pre
        /\ obj.trip = "redone" => obj.content = obj.post

\* C22  History invariant: -1 <= currentPosition <= history.length - 1; an undo at
\* position -1 and a redo at the last position change nothing; right after an
\* execute currentPosition is the last index, the commands undone before it gone.
HistoryPosition ==
    sut = "editor" =>
        /\ -1 <= obj.currentPosition
        /\ obj.currentPosition <= Len(obj.history) - 1
        /\ (obj.op = "undo" /\ obj.posBefore = -1) => ~obj.changed
        /\ (obj.op = "redo" /\ obj.posBefore = obj.lenBefore - 1) => ~obj.changed
        /\ obj.op = "execute" =>
              /\ obj.currentPosition = Len(obj.history) - 1
              /\ Len(obj.history) = obj.posBefore + 2

\* An execute has just discarded two undone commands.
HistoryPositionWitness ==
    /\ sut = "editor"
    /\ obj.op = "execute"
    /\ obj.lenBefore = obj.posBefore + 3
    /\ obj.currentPosition = Len(obj.history) - 1

\* C23: retryWithBackoff(fn, maxRetries, baseDelay) invokes fn at most maxRetries + 1
\* times; it returns the value of the first attempt that succeeds and does not invoke fn
\* again; when every attempt fails it throws the error of the last one; before the k-th
\* retry it waits baseDelay * 2^(k-1), and it does not wait after the final attempt.
RetryBackoff ==
    sut = "retry" /\ obj.pc # "idle" =>
        /\ obj.invoked <= obj.maxRetries + 1
        /\ \A k \in 1..Len(obj.waits) : obj.waits[k] = obj.baseDelay * 2 ^ (k - 1)
        /\ obj.pc = "fn" => obj.invoked = obj.attempt + 1 /\ Len(obj.waits) = obj.attempt
        /\ obj.pc = "backoff" => Len(obj.waits) = obj.invoked /\ obj.invoked <= obj.maxRetries
        /\ obj.pc = "returned" =>
               /\ obj.result = obj.invoked - 1
               /\ obj.lastError = obj.result - 1
               /\ Len(obj.waits) = obj.invoked - 1
        /\ obj.pc = "threw" =>
               /\ obj.invoked = obj.maxRetries + 1
               /\ obj.thrown = obj.invoked - 1
               /\ Len(obj.waits) = IF obj.invoked = 0 THEN 0 ELSE obj.invoked - 1

RetryBackoffWitness ==
    /\ sut = "retry"
    /\ obj.pc = "threw"
    /\ obj.maxRetries = 2
    /\ obj.waits = <<obj.baseDelay, 2 * obj.baseDelay>>
\* C24: limitConcurrency(tasks, limit) with limit >= 1 and tasks that all succeed never
\* has more than `limit` tasks started and not yet settled; every task is started
\* exactly once; the results come in the order of `tasks`, whatever the order in which
\* the tasks finished.
LimitedConcurrency ==
    sut = "limit" /\ obj.limit >= 1 =>
        /\ Cardinality({i \in 1..MaxTasks : obj.task[i] = "running"}) <= obj.limit
        /\ obj.peak <= obj.limit
        /\ \A i \in 1..MaxTasks : obj.starts[i] <= 1
        /\ obj.pc \in {"all", "returned"} => \A i \in 1..obj.n : obj.starts[i] = 1
        /\ obj.pc = "returned" => obj.returned = [i \in 1..obj.n |-> i]

LimitedConcurrencyWitness ==
    /\ sut = "limit"
    /\ obj.pc = "returned"
    /\ obj.limit = 2
    /\ obj.n = 3
    /\ obj.peak = 2
    /\ obj.finished = <<2, 3, 1>>
SingleLogger ==
    sut = "logger" =>
        /\ Cardinality(obj.returned) <= 1
        /\ \A logger \in obj.returned :
               /\ logger = obj.instance
               /\ Len(obj.logs[logger]) = obj.logCalls

SingleLoggerWitness ==
    /\ sut = "logger"
    /\ obj.allocated >= 2
    /\ obj.calls > obj.allocated + obj.logCalls
    /\ obj.logCalls = 2
    /\ Len(obj.logs[obj.instance]) = 2
OnceInvokedOnce ==
    sut = "emitter" =>
        \A l \in 1..MaxListeners :
            obj.kind[l] = "once" =>
                /\ obj.invoked[l] <= 1
                /\ obj.invoked[l] >= 1 /\ obj.stack = <<>> =>
                       \A k \in 1..Len(obj.events) : obj.events[k] # l

====
